---- MODULE Spec2Model ----
(***************************************************************************)
(* The training driver train.py as a state machine: the __main__ block,    *)
(* main() and train().  One run of the script is modelled from the parsed  *)
(* command line to the closing of the log, with the checkpoint directory   *)
(* and the log left behind by an earlier run as part of the initial state. *)
(*                                                                         *)
(* Tensors and floats are opaque: a model's weights are represented by the *)
(* number of training epochs they embody, a learning rate by the number of *)
(* gamma decays applied to args.lr, a validation metric by a small         *)
(* integer, and the three history lists by their lengths.                  *)
(***************************************************************************)
EXTENDS Integers, Sequences, FiniteSets, TLC

(* ---------------------------- bounds ---------------------------------- *)
MaxEpochs == 61       \* the larger value of --max_epochs
MidEpochs == 12       \* the smaller value of --max_epochs
PriorEpochs == 55     \* --max_epochs of the earlier, completed run
MaxResume == 20       \* --resume names a checkpoint of at most this epoch
MaxMetric == 1        \* validation mIOU values are 0..MaxMetric

(* ----------------------- program constants ---------------------------- *)
patience == 50        \* EarlyStopping(patience=50)
step_size == 20       \* StepLR(optimizer, step_size=20, gamma=0.9)
save_every == 10      \* elif epoch % 10 == 0
save_last == 10       \* if epoch > args.max_epochs - 10

Metrics == 0..MaxMetric
SupportedDatasets == {"cityscapes", "camvid", "paris", "road", "ai"}

VARIABLES
    pc,              \* position of the script
    args,            \* the parsed command line
    disk,            \* checkpoint files model_<name>.pth in args.savedir
    written,         \* names of the files torch.save wrote in this run
    savedir,         \* TRUE once main() has made sure args.savedir exists
    logger,          \* the log file handle: "none", "open", "closed"
    log,             \* lines this run appended to the log, in order
    model,           \* -1: not built; n >= 0: weights after n epochs
    optimizer_lr,    \* optimizer.param_groups[0]['lr'], as a decay count
    last_epoch,      \* lr_scheduler.last_epoch; -1: no scheduler yet
    lr,              \* main()'s local lr, returned by train()
    early_stopping,  \* the EarlyStopping object
    checkpoint,      \* main()'s local checkpoint: <<>> or <<the loaded file>>
    start_epoch,
    epoch,           \* the loop variable; max_epochs + 1 once the range is used up
    lossTr_list, mIOU_val_list, lossVal_list,   \* lengths of the lists
    mIOU_val,        \* main()'s local mIOU_val
    valReturned,     \* mIOU values returned by this run's validation passes
    steps            \* the steps taken so far in the current epoch

vars == <<pc, args, disk, written, savedir, logger, log, model, optimizer_lr,
          last_epoch, lr, early_stopping, checkpoint, start_epoch, epoch, lossTr_list,
          mIOU_val_list, lossVal_list, mIOU_val, valReturned, steps>>

(* --------------------------- pure parts -------------------------------- *)

\* if epoch > args.max_epochs - 10: save / elif epoch % 10 == 0: save
SavesAt(e, max_epochs) ==
    \/ e > max_epochs - save_last
    \/ e % save_every = 0

\* state = {"epoch": epoch, "model": model.state_dict()} stored under
\* args.savedir + '/model_' + str(epoch) + '.pth'
CheckpointState(e, weights) == [epoch |-> e, model |-> weights]

CheckpointFile(name, state) ==
    [name |-> name, epoch |-> state.epoch, model |-> state.model]

\* torch.save(state, model_file_name) replaces the file of that name
TorchSave(d, name, state) ==
    {f \in d : f.name # name} \cup {CheckpointFile(name, state)}

\* os.path.isfile / os.path.exists on a checkpoint path
IsFile(d, name) == \E f \in d : f.name = name

\* torch.load(args.resume)
TorchLoad(d, name) == CHOOSE f \in d : f.name = name

\* a resume that restarts at the stored epoch instead of the one after it
ResumeEpoch_same(ckpt) == ckpt.epoch

\* start_epoch = checkpoint['epoch'] + 1
ResumeEpoch(ckpt) == ckpt.epoch + 1

\* if epoch % args.val_epochs == 0 or epoch == 1 or epoch == args.max_epochs
ShouldValidate(e, a) ==
    \/ e % a.val_epochs = 0
    \/ e = 1
    \/ e = a.max_epochs

\* for index, line in enumerate(lines):
\*     if ((index + 1) % args.val_epochs) == 0 or index == 0
ResumedValEntries(lines, a) ==
    Cardinality({index \in 0..(lines - 1) :
                    (index + 1) % a.val_epochs = 0 \/ index = 0})

\* a dataset chain whose else branch does not raise
DatasetSupported_any(dataset) == TRUE

\* the dataset if/elif chain of __main__
DatasetSupported(dataset) == dataset \in SupportedDatasets

\* the files a completed run with --max_epochs m leaves in args.savedir
CompletedRunDisk(m) ==
    {CheckpointFile(e, CheckpointState(e, e)) : e \in {x \in 1..m : SavesAt(x, m)}}

\* EarlyStopping(patience=50)
NewEarlyStopping == [counter |-> 0, best_score |-> <<>>, early_stop |-> FALSE]

\* EarlyStopping.monitor(monitor=score)
ES_monitor(es, score) ==
    IF es.best_score = <<>>
    THEN [es EXCEPT !.best_score = <<score>>]
    ELSE IF score < es.best_score[1]
    THEN [es EXCEPT !.counter = es.counter + 1,
                    !.early_stop = (es.early_stop \/ es.counter + 1 >= patience)]
    ELSE [es EXCEPT !.best_score = <<score>>, !.counter = 0]

\* StepLR.step(): last_epoch += 1; lr *= gamma when last_epoch % step_size == 0
StepLR_decays(decays, last) ==
    IF (last + 1) % step_size = 0 THEN decays + 1 ELSE decays

\* a loop body that steps the scheduler before it records the log line
BodyOrder_schedFirst ==
    <<"train", "validate", "sched", "record", "save", "monitor", "check">>

\* the statements of the loop body, in the order main() writes them
BodyOrder == <<"train", "validate", "record", "sched", "save", "monitor", "check">>

\* the statement after statement p of the loop body
Succ(p) == BodyOrder[(CHOOSE i \in 1..(Len(BodyOrder) - 1) : BodyOrder[i] = p) + 1]

\* a check without the break
AfterCheck_noBreak(stop) == "for"

\* where the loop goes after the early-stop check of an iteration
AfterCheck(stop) == IF stop THEN "close" ELSE "for"

(* ----------------------------- Init ------------------------------------ *)

ArgsSet ==
    [dataset    : {"paris", "voc"},
     max_epochs : {MidEpochs, MaxEpochs},
     val_epochs : {1, 10},
     sliding    : BOOLEAN,
     resume     : {<<>>} \cup {<<n>> : n \in 1..MaxResume}]

Init ==
    /\ pc = "start"
    /\ args \in ArgsSet
    /\ disk \in {{}, CompletedRunDisk(PriorEpochs)}
    /\ args.resume # <<>> =>
          \/ IsFile(disk, args.resume[1])
          \/ args.resume[1] = 1
    /\ written = {}
    /\ savedir = FALSE
    /\ logger = "none"
    /\ log = <<>>
    /\ model = -1
    /\ optimizer_lr = 0
    /\ last_epoch = -1
    /\ lr = 0
    /\ early_stopping = NewEarlyStopping
    /\ checkpoint = <<>>
    /\ start_epoch = 0
    /\ epoch = 0
    /\ lossTr_list = 0
    /\ mIOU_val_list = 0
    /\ lossVal_list = 0
    /\ mIOU_val = 0
    /\ valReturned = {}
    /\ steps = <<>>

(* ---------------------------- actions ---------------------------------- *)

\* __main__: the dataset chain, then main(args)
CheckDataset ==
    /\ pc = "start"
    /\ pc' = IF DatasetSupported(args.dataset) THEN "main" ELSE "NotImplementedError"
    /\ UNCHANGED <<args, disk, written, savedir, logger, log, model, optimizer_lr,
                   last_epoch, lr, early_stopping, checkpoint, start_epoch, epoch, lossTr_list,
                   mIOU_val_list, lossVal_list, mIOU_val, valReturned, steps>>

\* main(): build_model, init_weight, the loaders, the loss, the optimizer
\* and the StepLR scheduler
Build ==
    /\ pc = "main"
    /\ model' = 0
    /\ optimizer_lr' = 0
    /\ last_epoch' = 0
    /\ pc' = "cuda"
    /\ UNCHANGED <<args, disk, written, savedir, logger, log, lr, early_stopping,
                   checkpoint, start_epoch, epoch, lossTr_list, mIOU_val_list, lossVal_list,
                   mIOU_val, valReturned, steps>>

\* if args.cuda: ... if not torch.cuda.is_available(): raise Exception
Cuda ==
    /\ pc = "cuda"
    /\ \E cuda \in BOOLEAN, available \in BOOLEAN :
          pc' = IF cuda /\ ~available THEN "Exception" ELSE "savedir"
    /\ UNCHANGED <<args, disk, written, savedir, logger, log, model, optimizer_lr,
                   last_epoch, lr, early_stopping, checkpoint, start_epoch, epoch, lossTr_list,
                   mIOU_val_list, lossVal_list, mIOU_val, valReturned, steps>>

\* os.makedirs(args.savedir), record_log(args), EarlyStopping(patience=50)
Savedir ==
    /\ pc = "savedir"
    /\ savedir' = TRUE
    /\ early_stopping' = NewEarlyStopping
    /\ pc' = "resume"
    /\ UNCHANGED <<args, disk, written, logger, log, model, optimizer_lr,
                   last_epoch, lr, checkpoint, start_epoch, epoch, lossTr_list,
                   mIOU_val_list, lossVal_list, mIOU_val, valReturned, steps>>

\* the lines recorder.resume_logfile() can return: the log of the earlier
\* run, whole, cut back to the checkpoint's epoch, or empty
LogLines ==
    IF disk = {} THEN {0}
    ELSE {0, PriorEpochs} \cup {f.epoch : f \in {g \in disk : g.name = args.resume[1]}}

\* start_epoch = 1 ... print('>>>beginning training>>>')
Resume ==
    /\ pc = "resume"
    /\ mIOU_val' = 0
    /\ IF args.resume # <<>>
       THEN /\ \E lines \in LogLines :
                 /\ lossTr_list' = lines
                 /\ lossVal_list' = ResumedValEntries(lines, args)
                 /\ mIOU_val_list' = ResumedValEntries(lines, args)
            /\ IF IsFile(disk, args.resume[1])
               THEN /\ checkpoint' = <<TorchLoad(disk, args.resume[1])>>
                    /\ start_epoch' = ResumeEpoch(checkpoint'[1])
                    /\ model' = checkpoint'[1].model
               ELSE /\ start_epoch' = 1
                    /\ UNCHANGED <<model, checkpoint>>
       ELSE /\ lossTr_list' = 0
            /\ lossVal_list' = 0
            /\ mIOU_val_list' = 0
            /\ start_epoch' = 1
            /\ UNCHANGED <<model, checkpoint>>
    /\ logger' = "open"
    /\ epoch' = start_epoch'
    /\ pc' = "for"
    /\ UNCHANGED <<args, disk, written, savedir, log, optimizer_lr, last_epoch, lr,
                   early_stopping, valReturned, steps>>

\* for epoch in range(start_epoch, args.max_epochs + 1)
For ==
    /\ pc = "for"
    /\ pc' = IF epoch <= args.max_epochs THEN "train" ELSE "close"
    /\ UNCHANGED <<args, disk, written, savedir, logger, log, model, optimizer_lr,
                   last_epoch, lr, early_stopping, checkpoint, start_epoch, epoch, lossTr_list,
                   mIOU_val_list, lossVal_list, mIOU_val, valReturned, steps>>

\* lossTr, lr = train(...); lossTr_list.append(lossTr)
Train ==
    /\ pc = "train"
    /\ lr' = optimizer_lr
    /\ model' = model + 1
    /\ lossTr_list' = lossTr_list + 1
    /\ steps' = <<"train">>
    /\ pc' = Succ("train")
    /\ UNCHANGED <<args, disk, written, savedir, logger, log, optimizer_lr,
                   last_epoch, early_stopping, checkpoint, start_epoch, epoch,
                   mIOU_val_list, lossVal_list, mIOU_val, valReturned>>

\* the validation pass of a scheduled epoch and the two appends after it;
\* predict_whole() is called without arguments and may raise
Validate ==
    /\ pc = "validate"
    /\ IF ShouldValidate(epoch, args)
       THEN \/ /\ \E m \in Metrics :
                     /\ mIOU_val' = m
                     /\ valReturned' = valReturned \cup {m}
               /\ mIOU_val_list' = mIOU_val_list + 1
               /\ lossVal_list' = lossVal_list + 1
               /\ steps' = Append(steps, "validate")
               /\ pc' = Succ("validate")
            \/ /\ ~args.sliding
               /\ pc' = "crashed"
               /\ UNCHANGED <<mIOU_val, valReturned, mIOU_val_list, lossVal_list, steps>>
       ELSE /\ pc' = Succ("validate")
            /\ UNCHANGED <<mIOU_val, valReturned, mIOU_val_list, lossVal_list, steps>>
    /\ UNCHANGED <<args, disk, written, savedir, logger, log, model, optimizer_lr,
                   last_epoch, lr, early_stopping, checkpoint, start_epoch, epoch, lossTr_list>>

\* recorder.record_trainVal_log(..., pa, mpa, cpa, ...) on a validated
\* epoch, where pa, mpa and cpa are bound only by predict_sliding;
\* recorder.record_train_log(logger, epoch, lr, lossTr) otherwise
Record ==
    /\ pc = "record"
    /\ IF ShouldValidate(epoch, args) /\ ~args.sliding
       THEN /\ pc' = "crashed"
            /\ UNCHANGED <<log, steps>>
       ELSE /\ log' = Append(log, [epoch |-> epoch, lr |-> lr,
                                   val |-> ShouldValidate(epoch, args)])
            /\ steps' = Append(steps, "record")
            /\ pc' = Succ("record")
    /\ UNCHANGED <<args, disk, written, savedir, logger, model, optimizer_lr,
                   last_epoch, lr, early_stopping, checkpoint, start_epoch, epoch, lossTr_list,
                   mIOU_val_list, lossVal_list, mIOU_val, valReturned>>

\* lr_scheduler.step(); draw_log(...)
SchedStep ==
    /\ pc = "sched"
    /\ optimizer_lr' = StepLR_decays(optimizer_lr, last_epoch)
    /\ last_epoch' = last_epoch + 1
    /\ steps' = Append(steps, "sched")
    /\ pc' = Succ("sched")
    /\ UNCHANGED <<args, disk, written, savedir, logger, log, model, lr,
                   early_stopping, checkpoint, start_epoch, epoch, lossTr_list,
                   mIOU_val_list, lossVal_list, mIOU_val, valReturned>>

\* the periodic torch.save of the epoch
Save ==
    /\ pc = "save"
    /\ IF SavesAt(epoch, args.max_epochs)
       THEN /\ disk' = TorchSave(disk, epoch, CheckpointState(epoch, model))
            /\ written' = written \cup {epoch}
            /\ steps' = Append(steps, "save")
       ELSE UNCHANGED <<disk, written, steps>>
    /\ pc' = Succ("save")
    /\ UNCHANGED <<args, savedir, logger, log, model, optimizer_lr, last_epoch, lr,
                   early_stopping, checkpoint, start_epoch, epoch, lossTr_list,
                   mIOU_val_list, lossVal_list, mIOU_val, valReturned>>

\* early_stopping.monitor(monitor=mIOU_val)
Monitor ==
    /\ pc = "monitor"
    /\ early_stopping' = ES_monitor(early_stopping, mIOU_val)
    /\ pc' = Succ("monitor")
    /\ UNCHANGED <<args, disk, written, savedir, logger, log, model, optimizer_lr,
                   last_epoch, lr, checkpoint, start_epoch, epoch, lossTr_list,
                   mIOU_val_list, lossVal_list, mIOU_val, valReturned, steps>>

\* if early_stopping.early_stop: [save and validate if no file] break
Check ==
    /\ pc = "check"
    /\ IF early_stopping.early_stop
       THEN /\ IF ~IsFile(disk, epoch)
               THEN /\ disk' = TorchSave(disk, epoch, CheckpointState(epoch, model))
                    /\ written' = written \cup {epoch}
                    /\ \E m \in Metrics :
                          /\ mIOU_val' = m
                          /\ valReturned' = valReturned \cup {m}
                    /\ steps' = steps \o <<"check", "save", "validate">>
               ELSE /\ steps' = Append(steps, "check")
                    /\ UNCHANGED <<disk, written, mIOU_val, valReturned>>
            /\ UNCHANGED epoch
       ELSE /\ epoch' = epoch + 1
            /\ steps' = Append(steps, "check")
            /\ UNCHANGED <<disk, written, mIOU_val, valReturned>>
    /\ pc' = AfterCheck(early_stopping.early_stop)
    /\ UNCHANGED <<args, savedir, logger, log, model, optimizer_lr, last_epoch, lr,
                   early_stopping, checkpoint, start_epoch, lossTr_list, mIOU_val_list,
                   lossVal_list>>

\* print("Early stopping and Save checkpoint"); logger.close()
Close ==
    /\ pc = "close"
    /\ logger' = "closed"
    /\ pc' = "done"
    /\ UNCHANGED <<args, disk, written, savedir, log, model, optimizer_lr,
                   last_epoch, lr, early_stopping, checkpoint, start_epoch, epoch, lossTr_list,
                   mIOU_val_list, lossVal_list, mIOU_val, valReturned, steps>>

Next ==
    \/ CheckDataset
    \/ Build
    \/ Cuda
    \/ Savedir
    \/ Resume
    \/ For
    \/ Train
    \/ Validate
    \/ Record
    \/ SchedStep
    \/ Save
    \/ Monitor
    \/ Check
    \/ Close

Spec == Init /\ [][Next]_vars

(* ------------------------- the properties ------------------------------ *)

\* the last epoch whose train step this run has executed (0: none yet)
LastTrained ==
    IF start_epoch < 1 THEN 0
    ELSE IF pc \in {"for", "train"} THEN epoch - 1
    ELSE IF epoch > args.max_epochs THEN args.max_epochs
    ELSE epoch

\* the epochs whose train step this run has executed
TrainedEpochs == IF start_epoch < 1 THEN {} ELSE start_epoch..LastTrained

\* the iteration of every trained epoch is over
BetweenEpochs == pc \in {"for", "train", "close", "done"} /\ TrainedEpochs # {}

LogLinesFor(e) == {i \in 1..Len(log) : log[i].epoch = e}

\* the order of the steps of an epoch as the overview of the loop gives it
StepOrder == <<"train", "validate", "record", "sched", "save", "check">>

Rank(s) == CHOOSE i \in 1..Len(StepOrder) : StepOrder[i] = s

StepSet == {steps[i] : i \in 1..Len(steps)}

\* the position of the early-stop check in steps, or one past its end
CheckAt ==
    IF "check" \in StepSet
    THEN CHOOSE i \in 1..Len(steps) : steps[i] = "check"
    ELSE Len(steps) + 1

\* the number of epochs in 1..e on which validation is scheduled
ScheduledValidations(e) ==
    Cardinality({x \in 1..e : ShouldValidate(x, args)})

\* C1: with --resume naming a path that is no file, the loop is entered at
\* epoch 1, with freshly initialised weights and with empty train-loss,
\* val-loss and mIOU histories, as in a run without --resume.
C1_MissingCheckpointFromScratch ==
    (args.resume # <<>> /\ checkpoint = <<>> /\ pc = "for" /\ steps = <<>>) =>
        /\ start_epoch = 1
        /\ epoch = 1
        /\ model = 0
        /\ lossTr_list = 0
        /\ lossVal_list = 0
        /\ mIOU_val_list = 0

\* C2: every epoch whose iteration has passed the recording statement (or
\* has ended) has exactly one log line, carrying its epoch number, and the
\* epoch numbers in the log are strictly increasing.
C2_OneLogLinePerEpoch ==
    /\ \A e \in TrainedEpochs :
          (e < epoch \/ pc \notin {"validate", "record"}) =>
              Cardinality(LogLinesFor(e)) = 1
    /\ \A i \in 1..Len(log) : log[i].epoch \in TrainedEpochs
    /\ \A i \in 1..(Len(log) - 1) : log[i].epoch < log[i + 1].epoch

\* C3, as claimed: the steps of an epoch occur in the order train,
\* validation, log record, scheduler step, checkpoint save, early-stop
\* check; an epoch that is over has trained, recorded, stepped the scheduler
\* and checked; the log is closed only after the last epoch's check.
C3_StepsInClaimedOrder ==
    /\ \A i, j \in 1..Len(steps) : i < j => Rank(steps[i]) < Rank(steps[j])
    /\ BetweenEpochs => {"train", "record", "sched", "check"} \subseteq StepSet
    /\ logger = "closed" => (pc = "done" /\ (steps = <<>> \/ "check" \in StepSet))

\* C3, amended: the same order holds up to the early-stop check; after the
\* check come only the extra save and validation pass of an epoch at which
\* early stopping fired and whose checkpoint file did not exist.
C3_StepsInOrderUpToCheck ==
    /\ \A i, j \in 1..Len(steps) :
          (i < j /\ j <= CheckAt) => Rank(steps[i]) < Rank(steps[j])
    /\ CheckAt < Len(steps) =>
          /\ SubSeq(steps, CheckAt + 1, Len(steps)) = <<"save", "validate">>
          /\ early_stopping.early_stop
          /\ \A i \in 1..CheckAt : steps[i] # "save"
          /\ pc \in {"close", "done"}
    /\ BetweenEpochs => {"train", "record", "sched", "check"} \subseteq StepSet
    /\ logger = "closed" => (pc = "done" /\ (steps = <<>> \/ "check" \in StepSet))

C3_Witness ==
    /\ pc = "done"
    /\ CheckAt < Len(steps)

\* C4: a file written while finishing epoch e stores epoch e, and a run
\* resumed from the file model_<e>.pth trains e+1 first: its log starts at
\* e+1, holds no epoch at or below e, and the weights of a trained epoch
\* embody exactly that many epochs of training.
C4_EpochRoundTrip ==
    /\ \A f \in disk : f.name \in written => f.epoch = f.name
    /\ checkpoint # <<>> =>
          /\ start_epoch = args.resume[1] + 1
          /\ \A e \in TrainedEpochs : e > args.resume[1]
          /\ TrainedEpochs # {} => (args.resume[1] + 1) \in TrainedEpochs
          /\ \A i \in 1..Len(log) : log[i].epoch > args.resume[1]
          /\ Len(log) >= 1 => log[1].epoch = args.resume[1] + 1
          /\ TrainedEpochs # {} => model = LastTrained

C4_Witness ==
    /\ checkpoint # <<>>
    /\ pc = "done"
    /\ Len(log) >= 2
    /\ \E f \in disk : f.name \in written /\ f.name > args.resume[1] + 1

\* C5: with a dataset name outside the five supported ones the script ends
\* in NotImplementedError before main(): no model is built, no directory
\* or log file is made, nothing is trained and nothing is saved.
C5_UnsupportedDatasetIsFatal ==
    args.dataset \notin {"cityscapes", "camvid", "paris", "road", "ai"} =>
        /\ pc \in {"start", "NotImplementedError"}
        /\ model = -1
        /\ last_epoch = -1
        /\ ~savedir
        /\ logger = "none"
        /\ log = <<>>
        /\ written = {}
        /\ lossTr_list = 0

C5_Witness ==
    /\ pc = "NotImplementedError"
    /\ args.dataset = "voc"

\* C6: the value handed to early_stopping.monitor is an mIOU returned by a
\* validation pass of the current run.
C6_MonitoredIsValidationMetric ==
    pc = "monitor" => mIOU_val \in valReturned

\* C7: the number of 0.9 decays in effect while epoch e is trained, and
\* logged for it, is floor((e-1)/20).
C7_DecaysFollowEpochNumber ==
    /\ pc \in {"validate", "record", "sched"} => lr = (epoch - 1) \div step_size
    /\ pc \in {"validate", "record", "sched"} => lr = optimizer_lr
    /\ \A i \in 1..Len(log) : log[i].lr = (log[i].epoch - 1) \div step_size

\* C8: once early_stop is true, every further step leaves the epoch, the
\* train-loss history, the weights, the log and the scheduler as they are,
\* writes no checkpoint for another epoch, and leads to closing the log.
C8_StoppedIsAbsorbing ==
    [][early_stopping.early_stop =>
          /\ epoch' = epoch
          /\ lossTr_list' = lossTr_list
          /\ model' = model
          /\ log' = log
          /\ last_epoch' = last_epoch
          /\ optimizer_lr' = optimizer_lr
          /\ written' \subseteq written \cup {epoch}
          /\ early_stopping'.early_stop
          /\ pc' \in {"close", "done"}
          /\ (pc = "close" => logger' = "closed")]_vars

C8_Witness ==
    /\ early_stopping.early_stop
    /\ pc = "done"
    /\ logger = "closed"
    /\ epoch < args.max_epochs

\* C9: when the loop has ended after training some epoch, the file of the
\* last trained epoch exists; and once epoch e is over, this run has
\* written a checkpoint for e exactly if e is a multiple of 10, or
\* e > max_epochs - 10, or early stopping fired at e.
C9_CheckpointWrittenIff ==
    /\ (pc \in {"close", "done"} /\ TrainedEpochs # {}) => IsFile(disk, LastTrained)
    /\ \A e \in TrainedEpochs :
          (e < epoch \/ pc \in {"close", "done"}) =>
              (e \in written <=>
                  \/ e % save_every = 0
                  \/ e > args.max_epochs - save_last
                  \/ (early_stopping.early_stop /\ e = epoch))

\* C10: after every completed epoch e, lossTr_list has e entries and
\* mIOU_val_list and lossVal_list both have as many entries as there are
\* scheduled validation epochs in 1..e.
C10_HistoriesAligned ==
    BetweenEpochs =>
        /\ lossTr_list = LastTrained
        /\ mIOU_val_list = lossVal_list
        /\ mIOU_val_list = ScheduledValidations(LastTrained)

====
